---- MODULE Spec2Model ----
(***************************************************************************)
(* pixelqart: brute-force search for a QR code that embeds a pixel-art.    *)
(* The model follows src/pixelqart.py: main() splits the design, uploads   *)
(* it, submits `concurrency` search_qrcode tasks to a thread pool and      *)
(* blocks on a shared Event; every task loops sample -> render ->          *)
(* composite -> validate -> score -> save until the Event is set.          *)
(* External capabilities (the QArt renderer, the pyzbar decoder) are the   *)
(* environment: their replies are chosen nondeterministically.             *)
(***************************************************************************)
EXTENDS Integers, Sequences, FiniteSets, TLC

\* ------------------------------------------------------------- bounds
\* Largest value of the --concurrency argument explored.
MaxConcurrency == 2
\* Largest thread-pool size explored (ThreadPoolExecutor() picks
\* min(32, cpu_count + 4); the model scales it down next to MaxConcurrency).
MaxThreads == 2
\* Attempts (iterations of the search loop) begun over the whole session.
MaxAttempts == 2
\* Largest seed drawn (random.getrandbits(32) is scaled down).
MaxSeed == 10

\* ---------------------------------------------------- program constants
QRCODE_SIZE == 41
QART_MARGIN == 4
RenderScale == 4
NumMasks == 8
NumOrients == 4
InitialSuccess == 1
FirstQuality == 1
LastQuality == 95
UploadRedirect == 302

VARIABLES
    concurrency,    \* main's argument: number of tasks submitted
    max_workers,    \* size of the ThreadPoolExecutor
    stop_if_found,  \* main's argument (-x)
    stub,           \* what the external capabilities are: "live", "one_qr", "zero"
    mainPc,         \* position of main()
    uploads,        \* status codes of the upload_image calls made, in order
    created,        \* whether main has made the Event and the pool
    interrupted,    \* whether a KeyboardInterrupt reached main
    submitted,      \* loop index of main's submit loop
    stop_event,     \* the shared threading.Event
    pc,             \* per task: position of search_qrcode
    params,         \* per task: (mask, orient, seed) of the current attempt
    data,           \* per task: the renderer's reply of the current attempt
    info,           \* per task: the validator's decode result
    levels,         \* per task: the decoder's replies to the scorer, by quality
    score,          \* per task: the value eval_qrcode returned
    error,          \* per task: the exception that ended the task, if any
    files,          \* the working directory: set of saved files
    nsaved,         \* number of canvas.save calls over the whole run
    attempts,       \* number of attempts begun over the whole run
    evalLevels,     \* scorer on its own: the decoder's replies by quality
    evalResult,     \* scorer on its own: what eval_qrcode gave
    design,         \* images on their own: the opened design file
    split,          \* images on their own: what split_design(design) gave
    qrcode,         \* images on their own: the renderer's raster after resize
    canvas          \* images on their own: the composited candidate

searchVars == <<concurrency, max_workers, stop_if_found, stub, mainPc, uploads, created,
                interrupted, submitted,
                stop_event, pc, params, data, info, levels, score, error,
                files, nsaved, attempts>>
scorerVars == <<evalLevels, evalResult>>
imageVars == <<design, split, qrcode, canvas>>
\* what the steps of a session leave alone
pureVars == <<scorerVars, imageVars>>
config == <<concurrency, max_workers, stop_if_found, stub>>
setupVars == <<uploads, created>>
vars == <<searchVars, scorerVars, imageVars>>

Tasks == 1..concurrency

\* ------------------------------------------------------ sampled parameters
NoParams == [mask |-> -1, orient |-> -1, seed |-> -1]

\* random.randrange(8), random.randrange(4), random.getrandbits(32): the model
\* draws the two ends of the ranges.
SampleParams ==
    { [mask |-> 0, orient |-> 0, seed |-> 0],
      [mask |-> NumMasks - 1, orient |-> NumOrients - 1, seed |-> MaxSeed] }

\* --------------------------------------------------------- the renderer
NoResponse == [answered |-> FALSE, status |-> -1, pieces |-> 0, marker |-> FALSE, scale |-> 0]
\* the PNG data URL of a 196x196 raster
ValidResponse == [answered |-> TRUE, status |-> 200, pieces |-> 3, marker |-> TRUE, scale |-> RenderScale]
\* an error page: no quoted payload at all
ErrorPage == [answered |-> TRUE, status |-> 500, pieces |-> 1, marker |-> FALSE, scale |-> 0]
\* a quoted payload that is not a PNG data URL
NoMarker == [answered |-> TRUE, status |-> 200, pieces |-> 3, marker |-> FALSE, scale |-> 0]
\* a PNG of the wrong dimensions
WrongDims == [answered |-> TRUE, status |-> 200, pieces |-> 3, marker |-> TRUE, scale |-> RenderScale - 1]
\* requests.get itself raises
NoAnswer == [answered |-> FALSE, status |-> 0, pieces |-> 0, marker |-> FALSE, scale |-> 0]

Responses ==
    IF stub = "live" THEN {ValidResponse, ErrorPage, NoMarker, WrongDims, NoAnswer}
    ELSE {ValidResponse}

\* What lines 93-106 do with a reply: "ok" or the exception raised.
RenderOutcome(r) ==
    IF ~r.answered THEN "ConnectionError"
    ELSE IF r.pieces < 2 THEN "ValueError"
    ELSE IF ~r.marker THEN "AssertionError"
    ELSE IF r.scale # RenderScale THEN "AssertionError"
    ELSE "ok"

\* ---------------------------------------------------------- the decoder
Symbologies == {"QRCODE", "EAN13"}
NoInfo == [raised |-> FALSE, codes |-> <<"unset">>]
Decoded(codes) == [raised |-> FALSE, codes |-> codes]
DecodeError == [raised |-> TRUE, codes |-> <<>>]
OneQR == Decoded(<<"QRCODE">>)
ZeroCodes == Decoded(<<>>)

DecodeResults ==
    {Decoded(<<>>)} \cup {Decoded(<<a>>) : a \in Symbologies}
        \cup {Decoded(<<a, b>>) : a \in Symbologies, b \in Symbologies}

DecodeOutcomes ==
    IF stub = "live" THEN DecodeResults \cup {DecodeError}
    ELSE IF stub = "one_qr" THEN {OneQR}
    ELSE {ZeroCodes}

\* ok with the count test off by one: len(info) <= 1
okAtMostOne(codes) == Len(codes) <= 1 /\ (Len(codes) = 1 => codes[1] = "QRCODE")

\* ok without the symbology test: len(info) == 1
okAnySymbology(codes) == Len(codes) = 1

\* ok = (len(info) == 1 and info[0].type == 'QRCODE')
ok(codes) == Len(codes) = 1 /\ codes[1] = "QRCODE"

\* ----------------------------------------------------------- the scorer
Qualities == FirstQuality..LastQuality
NoLevels == [a |-> 0, b |-> 0, inside |-> NoInfo, outside |-> NoInfo]
NoScore == 0

\* The decoder's replies to the scorer are kept as a descriptor: `inside` on
\* the quality levels a..b, `outside` on the others.
Profile(a, b, inside, outside) ==
    [a |-> a, b |-> b, inside |-> inside, outside |-> outside]

\* decode_barcode(img) for the image re-encoded at each quality
Replies(d) ==
    [q \in Qualities |-> IF d.a <= q /\ q <= d.b THEN d.inside ELSE d.outside]

\* One pass of the loop body at `quality`: decode, test, count. An exception
\* raised by the decoder leaves the loop (nothing in eval_qrcode catches it).
EvalStep(lv, quality, acc) ==
    IF acc.raised THEN acc
    ELSE IF lv[quality].raised THEN [raised |-> TRUE, value |-> NoScore]
    ELSE IF ok(lv[quality].codes) THEN [raised |-> FALSE, value |-> acc.value + 1]
    ELSE acc

\* for quality in range(lo, hi + 1), in order, from the state `acc`
\* (the range is walked by halves, each half's result taken as a value
\* before the next starts, to keep the evaluation shallow).
RECURSIVE EvalLoop(_, _, _, _)
EvalLoop(lv, lo, hi, acc) ==
    IF lo > hi THEN acc
    ELSE IF lo = hi THEN EvalStep(lv, lo, acc)
    ELSE LET mid == (lo + hi) \div 2
         IN  CHOOSE r \in {EvalLoop(lv, mid + 1, hi, left) :
                               left \in {EvalLoop(lv, lo, mid, acc)}} : TRUE

\* eval_qrcode with range(1, 95): the last quality level is never tried
eval_qrcode_short(lv) ==
    EvalLoop(lv, FirstQuality, LastQuality - 1, [raised |-> FALSE, value |-> InitialSuccess])

\* lv: the decoder's reply at each quality level
eval_qrcode(lv) ==
    EvalLoop(lv, FirstQuality, LastQuality, [raised |-> FALSE, value |-> InitialSuccess])

NotRun == [done |-> FALSE, raised |-> FALSE, value |-> NoScore]

\* The replies the search model draws from: every level passes, no level
\* passes, the decoder raises at the last level.
AllPass == Profile(FirstQuality, LastQuality, OneQR, OneQR)
NonePass == Profile(FirstQuality, LastQuality, ZeroCodes, ZeroCodes)
RaisesAtLast == Profile(LastQuality, LastQuality, DecodeError, OneQR)

ScoreProfiles ==
    IF stub = "live" THEN {AllPass, NonePass, RaisesAtLast}
    ELSE IF stub = "one_qr" THEN {AllPass}
    ELSE {NonePass}

\* fut.result() for each of them: what eval_qrcode gives (evaluated once)
Scored == [d \in {AllPass, NonePass, RaisesAtLast} |-> eval_qrcode(Replies(d))]

\* --------------------------------------------------------- the file name
DigitChars == <<"0", "1", "2", "3", "4", "5", "6", "7", "8", "9">>

RECURSIVE Digits(_)
Digits(n) ==
    IF n < 10 THEN <<DigitChars[n + 1]>>
    ELSE Digits(n \div 10) \o <<DigitChars[(n % 10) + 1]>>

SessionName == "design"

\* the file name without the parameters: f'{name}-{score}.png'
FilenameScoreOnly(name, sc, p) ==
    <<name, "-">> \o Digits(sc) \o <<".png">>

\* f'{name}-{score}-m{mask}o{orient}s{seed}.png'
Filename(name, sc, p) ==
    <<name, "-">> \o Digits(sc) \o <<"-", "m">> \o Digits(p.mask)
        \o <<"o">> \o Digits(p.orient) \o <<"s">> \o Digits(p.seed) \o <<".png">>

\* canvas.save(filename): a file of that name is replaced
Save(fs, name, p, sc) ==
    {f \in fs : f.name # name} \cup {[name |-> name, params |-> p, score |-> sc]}

\* ------------------------------------------------------------- images
\* A pixel is <<r, g, b, a>>; an image has a width, a height and a pixel for
\* every <<x, y>> of its grid.
NECESSARY_BLACK == <<0, 0, 255, 255>>
NECESSARY_WHITE == <<255, 255, 0, 255>>
TrueBlack == <<0, 0, 0, 255>>
TrueWhite == <<255, 255, 255, 255>>
\* what Image.new('RGBA', size) fills with
Transparent == <<0, 0, 0, 0>>

Grid(w, h) == (0..(w - 1)) \X (0..(h - 1))
Img(w, h, px) == [width |-> w, height |-> h, px |-> px]
NoImage == Img(0, 0, <<>>)

\* Image.new('RGBA', (w, h), colour)
New(w, h, colour) == Img(w, h, [p \in Grid(w, h) |-> colour])

\* size = (QRCODE_SIZE[0] + QART_MARGIN*2, QRCODE_SIZE[1] + QART_MARGIN*2)
CanvasSide == QRCODE_SIZE + QART_MARGIN * 2

\* An opened design file: its mode, its size and its pixels, which repeat
\* `palette` along the diagonals.
Design(mode, w, h, palette) ==
    [mode |-> mode, width |-> w, height |-> h, palette |-> palette]
NoDesign == Design("none", 0, 0, <<>>)

\* pixels = design.load(): pixels[x, y]
Load(d) ==
    [p \in Grid(d.width, d.height) |-> d.palette[((p[1] + p[2]) % Len(d.palette)) + 1]]

NotSplit == [done |-> FALSE, raised |-> FALSE, desired |-> NoImage,
             necessary |-> NoImage, pixels |-> <<>>]

\* split_design that leaves the desired part blank where the design has a
\* sentinel
split_design_necessary_only(d) ==
    IF d.mode # "RGBA" \/ <<d.width, d.height>> # <<QRCODE_SIZE, QRCODE_SIZE>>
    THEN [done |-> TRUE, raised |-> TRUE, desired |-> NoImage,
          necessary |-> NoImage, pixels |-> Load(d)]
    ELSE LET pixels == Load(d)
         IN  [done |-> TRUE, raised |-> FALSE,
              desired |-> Img(QRCODE_SIZE, QRCODE_SIZE,
                  [p \in Grid(d.width, d.height) |->
                     IF pixels[p] \in {NECESSARY_BLACK, NECESSARY_WHITE}
                     THEN Transparent ELSE pixels[p]]),
              necessary |-> Img(QRCODE_SIZE, QRCODE_SIZE,
                  [p \in Grid(d.width, d.height) |->
                     IF pixels[p] = NECESSARY_BLACK THEN TrueBlack
                     ELSE IF pixels[p] = NECESSARY_WHITE THEN TrueWhite
                     ELSE Transparent]),
              pixels |-> pixels]

\* split_design that writes the necessary part half transparent
split_design_soft(d) ==
    IF d.mode # "RGBA" \/ <<d.width, d.height>> # <<QRCODE_SIZE, QRCODE_SIZE>>
    THEN [done |-> TRUE, raised |-> TRUE, desired |-> NoImage,
          necessary |-> NoImage, pixels |-> Load(d)]
    ELSE LET pixels == Load(d)
         IN  [done |-> TRUE, raised |-> FALSE,
              desired |-> Img(QRCODE_SIZE, QRCODE_SIZE,
                  [p \in Grid(d.width, d.height) |->
                     IF pixels[p] = NECESSARY_BLACK THEN TrueBlack
                     ELSE IF pixels[p] = NECESSARY_WHITE THEN TrueWhite
                     ELSE pixels[p]]),
              necessary |-> Img(QRCODE_SIZE, QRCODE_SIZE,
                  [p \in Grid(d.width, d.height) |->
                     IF pixels[p] = NECESSARY_BLACK THEN <<0, 0, 0, 128>>
                     ELSE IF pixels[p] = NECESSARY_WHITE THEN <<255, 255, 255, 128>>
                     ELSE Transparent]),
              pixels |-> pixels]

\* split_design(design): the two asserts, then the loop over every (x, y);
\* `pixels` is the design's pixel access after the loop.
split_design(d) ==
    IF d.mode # "RGBA" \/ <<d.width, d.height>> # <<QRCODE_SIZE, QRCODE_SIZE>>
    THEN [done |-> TRUE, raised |-> TRUE, desired |-> NoImage,
          necessary |-> NoImage, pixels |-> Load(d)]
    ELSE LET pixels == Load(d)
         IN  [done |-> TRUE, raised |-> FALSE,
              desired |-> Img(QRCODE_SIZE, QRCODE_SIZE,
                  [p \in Grid(d.width, d.height) |->
                     IF pixels[p] = NECESSARY_BLACK THEN TrueBlack
                     ELSE IF pixels[p] = NECESSARY_WHITE THEN TrueWhite
                     ELSE pixels[p]]),
              necessary |-> Img(QRCODE_SIZE, QRCODE_SIZE,
                  [p \in Grid(d.width, d.height) |->
                     IF pixels[p] = NECESSARY_BLACK THEN TrueBlack
                     ELSE IF pixels[p] = NECESSARY_WHITE THEN TrueWhite
                     ELSE Transparent]),
              pixels |-> pixels]

\* Pillow's blend of one band under an 8-bit mask value:
\* DIV255(in1 * (255 - mask) + in2 * mask), DIV255(a) = ((a+128 >> 8) + a+128) >> 8
Div255(a) == (((a + 128) \div 256) + (a + 128)) \div 256
Blend(mask, in1, in2) == Div255(in1 * (255 - mask) + in2 * mask)

\* im.paste(src): src replaces the region of its size at the top left corner
Paste(im, src) ==
    Img(im.width, im.height,
        [p \in Grid(im.width, im.height) |->
           IF p \in Grid(src.width, src.height) THEN src.px[p] ELSE im.px[p]])

\* im.paste(src, (dx, dy), mask=src): every band of the region is blended
\* under the alpha band of src
PasteMask(im, src, dx, dy) ==
    Img(im.width, im.height,
        [p \in Grid(im.width, im.height) |->
           LET q == <<p[1] - dx, p[2] - dy>>
           IN  IF q \in Grid(src.width, src.height)
               THEN LET alpha == src.px[q][4]
                    IN  <<Blend(alpha, im.px[p][1], src.px[q][1]),
                          Blend(alpha, im.px[p][2], src.px[q][2]),
                          Blend(alpha, im.px[p][3], src.px[q][3]),
                          Blend(alpha, im.px[p][4], src.px[q][4])>>
               ELSE im.px[p]])

\* the two pastes in the other order: the raster goes over the necessary part
compose_raster_last(raster, necessary) ==
    Paste(PasteMask(New(CanvasSide, CanvasSide, Transparent),
                    necessary, QART_MARGIN, QART_MARGIN),
          raster)

\* canvas = Image.new('RGBA', size, (0, 0, 0, 0)); canvas.paste(qrcode);
\* canvas.paste(necessary, (QART_MARGIN, QART_MARGIN), mask=necessary)
compose(raster, necessary) ==
    PasteMask(Paste(New(CanvasSide, CanvasSide, Transparent), raster),
              necessary, QART_MARGIN, QART_MARGIN)

\* qrcode.resize(size), seen as RGBA: a raster of the canvas size whose
\* columns repeat `palette`.
Raster(palette) ==
    Img(CanvasSide, CanvasSide,
        [p \in Grid(CanvasSide, CanvasSide) |-> palette[(p[1] % Len(palette)) + 1]])
NoRaster == <<>>
NoCanvas == [done |-> FALSE, im |-> NoImage]

\* ---------------------------------------------------------------- Init
InitState ==
    /\ mainPc = "split"
    /\ uploads = <<>>
    /\ created = FALSE
    /\ interrupted = FALSE
    /\ submitted = 0
    /\ stop_event = FALSE
    /\ pc = [i \in Tasks |-> "unsubmitted"]
    /\ params = [i \in Tasks |-> NoParams]
    /\ data = [i \in Tasks |-> NoResponse]
    /\ info = [i \in Tasks |-> NoInfo]
    /\ levels = [i \in Tasks |-> NoLevels]
    /\ score = [i \in Tasks |-> NoScore]
    /\ error = [i \in Tasks |-> "none"]
    /\ files = {}
    /\ nsaved = 0
    /\ attempts = 0

\* no image is being looked at
InitImages ==
    /\ design = NoDesign
    /\ split = NotSplit
    /\ qrcode = NoRaster
    /\ canvas = NoCanvas

Init ==
    /\ concurrency \in 1..MaxConcurrency
    /\ max_workers \in 1..MaxThreads
    /\ stop_if_found \in BOOLEAN
    /\ stub \in {"live", "one_qr", "zero"}
    /\ InitState
    /\ evalLevels = NoLevels
    /\ evalResult = NotRun
    /\ InitImages

\* ------------------------------------------------------------ the pool
Running(i) ==
    pc[i] \in {"Sampling", "Rendering", "Compositing", "Validating",
               "Scoring", "Persisting", "Stopping"}
Finished(i) == pc[i] \in {"exited", "crashed"}

\* The locals of one attempt, dropped when the attempt ends.
ClearLocals(i) ==
    /\ params' = [params EXCEPT ![i] = NoParams]
    /\ data' = [data EXCEPT ![i] = NoResponse]
    /\ info' = [info EXCEPT ![i] = NoInfo]
    /\ levels' = [levels EXCEPT ![i] = NoLevels]
    /\ score' = [score EXCEPT ![i] = NoScore]

\* An exception leaves search_qrcode: the task ends, its future keeps the
\* exception and nobody reads it.
Raise(i, exc) ==
    /\ pc' = [pc EXCEPT ![i] = "crashed"]
    /\ error' = [error EXCEPT ![i] = exc]

\* A pool thread takes the oldest queued task (the pool's queue is FIFO and
\* at most max_workers threads exist).
Start(i) ==
    /\ pc[i] = "queued"
    /\ \A j \in Tasks : pc[j] = "queued" => i <= j
    /\ Cardinality({j \in Tasks : Running(j)}) < max_workers
    /\ pc' = [pc EXCEPT ![i] = "Sampling"]
    /\ UNCHANGED <<config, setupVars, mainPc, interrupted, submitted,
                   stop_event, params, data, info, levels, score, error,
                   files, nsaved, attempts, pureVars>>

\* Each task has its own locals; this tuple is what the main thread leaves alone.
workerVars == <<pc, params, data, info, levels, score, error, files, nsaved, attempts>>

\* ------------------------------------------------------- search_qrcode
\* the loop as `while True:`: the event is never polled
SampleNoPoll(i) ==
    /\ pc[i] = "Sampling"
    /\ attempts < MaxAttempts
    /\ \E p \in SampleParams : params' = [params EXCEPT ![i] = p]
    /\ attempts' = attempts + 1
    /\ pc' = [pc EXCEPT ![i] = "Rendering"]
    /\ info' = [info EXCEPT ![i] = NoInfo]
    /\ UNCHANGED <<config, setupVars, mainPc, interrupted, submitted,
                   stop_event, data, levels, score, error,
                   files, nsaved, pureVars>>

\* while not stop_event.is_set(): draw mask, orient, seed and send the request
\* (the previous attempt's decode result is not read again).
Sample(i) ==
    /\ pc[i] = "Sampling"
    /\ IF stop_event
       THEN /\ pc' = [pc EXCEPT ![i] = "exited"]
            /\ UNCHANGED <<params, attempts>>
       ELSE /\ attempts < MaxAttempts
            /\ \E p \in SampleParams : params' = [params EXCEPT ![i] = p]
            /\ attempts' = attempts + 1
            /\ pc' = [pc EXCEPT ![i] = "Rendering"]
    /\ info' = [info EXCEPT ![i] = NoInfo]
    /\ UNCHANGED <<config, setupVars, mainPc, interrupted, submitted,
                   stop_event, data, levels, score, error,
                   files, nsaved, pureVars>>

\* requests.get returns (or raises); the reply is unpacked and checked.
RenderReturn(i) ==
    /\ pc[i] = "Rendering"
    /\ \E r \in Responses :
         /\ data' = [data EXCEPT ![i] = r]
         /\ IF RenderOutcome(r) = "ok"
            THEN /\ pc' = [pc EXCEPT ![i] = "Compositing"]
                 /\ UNCHANGED <<params, error>>
            ELSE /\ Raise(i, RenderOutcome(r))
                 /\ params' = [params EXCEPT ![i] = NoParams]
    /\ UNCHANGED <<config, setupVars, mainPc, interrupted, submitted,
                   stop_event, info, levels, score, files, nsaved, attempts,
                   pureVars>>

\* resize, paste the raster, paste the necessary part; then call the decoder.
Composite(i) ==
    /\ pc[i] = "Compositing"
    /\ pc' = [pc EXCEPT ![i] = "Validating"]
    /\ UNCHANGED <<config, setupVars, mainPc, interrupted, submitted,
                   stop_event, params, data, info, levels, score, error,
                   files, nsaved, attempts, pureVars>>

\* `if not ok:` followed by a second poll: a rejected attempt returns at once
\* when the event is set
ValidateReturnPolls(i) ==
    /\ pc[i] = "Validating"
    /\ \E d \in DecodeOutcomes :
         IF d.raised
         THEN /\ Raise(i, "DecodeError")
              /\ info' = [info EXCEPT ![i] = d]
              /\ params' = [params EXCEPT ![i] = NoParams]
              /\ data' = [data EXCEPT ![i] = NoResponse]
              /\ UNCHANGED <<levels, score>>
         ELSE IF ok(d.codes)
         THEN /\ info' = [info EXCEPT ![i] = d]
              /\ pc' = [pc EXCEPT ![i] = "Scoring"]
              /\ UNCHANGED <<params, data, levels, score, error>>
         ELSE /\ pc' = [pc EXCEPT ![i] = IF stop_event THEN "exited" ELSE "Sampling"]
              /\ info' = [info EXCEPT ![i] = d]
              /\ params' = [params EXCEPT ![i] = NoParams]
              /\ data' = [data EXCEPT ![i] = NoResponse]
              /\ UNCHANGED <<levels, score, error>>
    /\ UNCHANGED <<config, setupVars, mainPc, interrupted, submitted,
                   stop_event, files, nsaved, attempts, pureVars>>

\* decode_barcode returns (or raises); `if not ok: continue`. `info` keeps the
\* decoder's reply while the loop goes round.
ValidateReturn(i) ==
    /\ pc[i] = "Validating"
    /\ \E d \in DecodeOutcomes :
         IF d.raised
         THEN /\ Raise(i, "DecodeError")
              /\ info' = [info EXCEPT ![i] = d]
              /\ params' = [params EXCEPT ![i] = NoParams]
              /\ data' = [data EXCEPT ![i] = NoResponse]
              /\ UNCHANGED <<levels, score>>
         ELSE IF ok(d.codes)
         THEN /\ info' = [info EXCEPT ![i] = d]
              /\ pc' = [pc EXCEPT ![i] = "Scoring"]
              /\ UNCHANGED <<params, data, levels, score, error>>
         ELSE /\ pc' = [pc EXCEPT ![i] = "Sampling"]
              /\ info' = [info EXCEPT ![i] = d]
              /\ params' = [params EXCEPT ![i] = NoParams]
              /\ data' = [data EXCEPT ![i] = NoResponse]
              /\ UNCHANGED <<levels, score, error>>
    /\ UNCHANGED <<config, setupVars, mainPc, interrupted, submitted,
                   stop_event, files, nsaved, attempts, pureVars>>

\* fut.result(): eval_qrcode ran in its own process and returned or raised.
ScoreReturn(i) ==
    /\ pc[i] = "Scoring"
    /\ \E lv \in ScoreProfiles :
         \E r \in {Scored[lv]} :
            /\ levels' = [levels EXCEPT ![i] = lv]
            /\ IF r.raised
               THEN /\ Raise(i, "DecodeError")
                    /\ params' = [params EXCEPT ![i] = NoParams]
                    /\ data' = [data EXCEPT ![i] = NoResponse]
                    /\ info' = [info EXCEPT ![i] = NoInfo]
                    /\ UNCHANGED score
               ELSE /\ score' = [score EXCEPT ![i] = r.value]
                    /\ pc' = [pc EXCEPT ![i] = "Persisting"]
                    /\ UNCHANGED <<params, data, info, error>>
    /\ UNCHANGED <<config, setupVars, mainPc, interrupted, submitted,
                   stop_event, files, nsaved, attempts, pureVars>>

\* the stop_if_found test placed before the save: the found canvas is not written
PersistBreakFirst(i) ==
    /\ pc[i] = "Persisting"
    /\ IF stop_if_found
       THEN /\ pc' = [pc EXCEPT ![i] = "Stopping"]
            /\ UNCHANGED <<files, nsaved>>
       ELSE /\ files' = Save(files, Filename(SessionName, score[i], params[i]),
                             params[i], score[i])
            /\ nsaved' = nsaved + 1
            /\ pc' = [pc EXCEPT ![i] = "Sampling"]
    /\ ClearLocals(i)
    /\ UNCHANGED <<config, setupVars, mainPc, interrupted, submitted,
                   stop_event, error, attempts, pureVars>>

\* canvas.save(filename); then `if stop_if_found:` decides where the loop goes.
Persist(i) ==
    /\ pc[i] = "Persisting"
    /\ files' = Save(files, Filename(SessionName, score[i], params[i]), params[i], score[i])
    /\ nsaved' = nsaved + 1
    /\ pc' = [pc EXCEPT ![i] = IF stop_if_found THEN "Stopping" ELSE "Sampling"]
    /\ ClearLocals(i)
    /\ UNCHANGED <<config, setupVars, mainPc, interrupted, submitted,
                   stop_event, error, attempts, pureVars>>

\* stop_event.clear() in place of stop_event.set()
StopClears(i) ==
    /\ pc[i] = "Stopping"
    /\ stop_event' = FALSE
    /\ pc' = [pc EXCEPT ![i] = "exited"]
    /\ UNCHANGED <<config, setupVars, mainPc, interrupted, submitted,
                   params, data, info, levels, score, error,
                   files, nsaved, attempts, pureVars>>

\* stop_event.set(); break
Stop(i) ==
    /\ pc[i] = "Stopping"
    /\ stop_event' = TRUE
    /\ pc' = [pc EXCEPT ![i] = "exited"]
    /\ UNCHANGED <<config, setupVars, mainPc, interrupted, submitted,
                   params, data, info, levels, score, error,
                   files, nsaved, attempts, pureVars>>

\* ---------------------------------------------------------------- main

\* The design files a session is started on: a well-formed one, one of
\* another mode, one of another size.
SessionDesigns ==
    {Design("RGBA", QRCODE_SIZE, QRCODE_SIZE, <<NECESSARY_BLACK, TrueWhite>>),
     Design("RGB", QRCODE_SIZE, QRCODE_SIZE, <<TrueBlack, TrueWhite>>),
     Design("RGBA", QRCODE_SIZE + 1, QRCODE_SIZE, <<NECESSARY_BLACK, TrueWhite>>)}

\* split_design(design): an assert on the mode or the size ends main
SplitDesign ==
    /\ mainPc = "split"
    /\ \E d \in SessionDesigns :
         mainPc' = IF split_design(d).raised THEN "aborted" ELSE "upload"
    /\ UNCHANGED <<config, setupVars, interrupted, submitted,
                   stop_event, workerVars, pureVars>>

\* upload_image without the assert on the status code
UploadUnchecked ==
    /\ mainPc = "upload"
    /\ \E status \in {UploadRedirect, 500} :
         /\ uploads' = Append(uploads, status)
         /\ mainPc' = "create"
    /\ UNCHANGED <<config, created, interrupted, submitted,
                   stop_event, workerVars, pureVars>>

\* upload_image(f.name): assert r.status_code == 302
Upload ==
    /\ mainPc = "upload"
    /\ \E status \in {UploadRedirect, 500} :
         /\ uploads' = Append(uploads, status)
         /\ mainPc' = IF status = UploadRedirect THEN "create" ELSE "aborted"
    /\ UNCHANGED <<config, created, interrupted, submitted,
                   stop_event, workerVars, pureVars>>

\* stop_event = Event(); ex = ThreadPoolExecutor()
CreateEvent ==
    /\ mainPc = "create"
    /\ created' = TRUE
    /\ mainPc' = "submit"
    /\ UNCHANGED <<config, uploads, interrupted, submitted,
                   stop_event, workerVars, pureVars>>

\* for i in range(concurrency): ex.submit(search_qrcode, ...)
Submit ==
    /\ mainPc = "submit"
    /\ IF submitted < concurrency
       THEN /\ pc' = [pc EXCEPT ![submitted + 1] = "queued"]
            /\ submitted' = submitted + 1
            /\ UNCHANGED mainPc
       ELSE /\ mainPc' = "wait"
            /\ UNCHANGED <<pc, submitted>>
    /\ UNCHANGED <<config, setupVars, interrupted, stop_event,
                   params, data, info, levels, score, error, files, nsaved,
                   attempts, pureVars>>

\* stop_event.wait() returns once the event is set
WaitReturn ==
    /\ mainPc = "wait"
    /\ stop_event
    /\ mainPc' = "finally"
    /\ UNCHANGED <<config, setupVars, interrupted, submitted,
                   stop_event, workerVars, pureVars>>

\* KeyboardInterrupt while main blocks in stop_event.wait(); the except
\* clause prints and falls through to finally.
Interrupt ==
    /\ mainPc = "wait"
    /\ interrupted' = TRUE
    /\ mainPc' = "finally"
    /\ UNCHANGED <<config, setupVars, submitted, stop_event, workerVars, pureVars>>

\* finally: stop_event.set()
Finally ==
    /\ mainPc = "finally"
    /\ stop_event' = TRUE
    /\ mainPc' = "shutdown"
    /\ UNCHANGED <<config, setupVars, interrupted, submitted,
                   workerVars, pureVars>>

\* ex.shutdown(wait=False): main returns without joining the pool threads
ShutdownNoWait ==
    /\ mainPc = "shutdown"
    /\ mainPc' = "returned"
    /\ UNCHANGED <<config, setupVars, interrupted, submitted,
                   stop_event, workerVars, pureVars>>

\* ex.shutdown() joins the pool threads, which first drain the queue;
\* necessary.close(); main returns.
Shutdown ==
    /\ mainPc = "shutdown"
    /\ \A i \in Tasks : Finished(i)
    /\ mainPc' = "returned"
    /\ UNCHANGED <<config, setupVars, interrupted, submitted,
                   stop_event, workerVars, pureVars>>

Worker(i) ==
    \/ Start(i)
    \/ Sample(i)
    \/ RenderReturn(i)
    \/ Composite(i)
    \/ ValidateReturn(i)
    \/ ScoreReturn(i)
    \/ Persist(i)
    \/ Stop(i)

Main ==
    \/ SplitDesign
    \/ Upload
    \/ CreateEvent
    \/ Submit
    \/ WaitReturn
    \/ Interrupt
    \/ Finally
    \/ Shutdown

Next == Main \/ \E i \in Tasks : Worker(i)

Spec == Init /\ [][Next]_vars

\* Scheduling: every thread that can run eventually runs, every external call
\* returns; the user is free never to interrupt.
Fairness ==
    /\ \A i \in 1..MaxConcurrency : WF_vars(i \in Tasks /\ Worker(i))
    /\ WF_vars(SplitDesign \/ Upload \/ CreateEvent \/ Submit \/ WaitReturn \/ Finally \/ Shutdown)

\* The sessions run with --stop-if-found against the live capabilities (which
\* can reply whatever the stubs reply), under that scheduling.
InitFair == Init /\ stop_if_found = TRUE /\ stub = "live"

FairSpec == InitFair /\ [][Next]_vars /\ Fairness

\* Scheduling when the external calls are not assumed to answer: requests.get
\* (line 93) is called without a timeout and decode_barcode has none, so only
\* the steps a thread takes by itself are sure to happen.
FairnessLocal ==
    /\ \A i \in 1..MaxConcurrency :
          WF_vars(i \in Tasks /\ (Start(i) \/ Sample(i) \/ Composite(i)
                                     \/ Persist(i) \/ Stop(i)))
    /\ WF_vars(SplitDesign \/ Upload \/ CreateEvent \/ Submit \/ WaitReturn \/ Finally \/ Shutdown)

HangSpec == InitFair /\ [][Next]_vars /\ FairnessLocal

\* -------------------------------------------------- the scorer on its own
\* eval_qrcode applied to one candidate, the decoder's replies drawn freely.
QualityMarks ==
    {FirstQuality, FirstQuality + 1, (FirstQuality + LastQuality) \div 2,
     LastQuality - 1, LastQuality}

InitScore ==
    /\ concurrency = 1
    /\ max_workers = 1
    /\ stop_if_found = FALSE
    /\ stub = "live"
    /\ InitState
    /\ evalLevels \in {Profile(a, b, x, y) :
                         a \in QualityMarks, b \in QualityMarks,
                         x \in DecodeResults \cup {DecodeError},
                         y \in DecodeResults \cup {DecodeError}}
    /\ evalResult = NotRun
    /\ InitImages

EvalQrcode ==
    /\ ~evalResult.done
    /\ \E r \in {eval_qrcode(Replies(evalLevels))} :
         evalResult' = [done |-> TRUE, raised |-> r.raised, value |-> r.value]
    /\ UNCHANGED <<searchVars, evalLevels, imageVars>>

SpecScore == InitScore /\ [][EvalQrcode]_vars

\* ------------------------------------------- the image steps on their own
\* split_design applied to one design, then the compositing of lines 110-112
\* applied to its necessary part and one resized raster.
DesignColours ==
    {NECESSARY_BLACK, NECESSARY_WHITE, TrueBlack, TrueWhite, Transparent,
     <<0, 0, 255, 254>>, <<255, 0, 0, 255>>}
\* the column palettes of the rasters: black and white modules, all white,
\* and the grey a resize leaves on a module edge
RasterPalettes ==
    {<<TrueBlack, TrueWhite>>, <<TrueWhite, TrueWhite>>,
     <<<<128, 128, 128, 255>>, TrueBlack>>}

Designs ==
    {Design("RGBA", QRCODE_SIZE, QRCODE_SIZE, <<a, b>>) :
        a \in DesignColours, b \in DesignColours}
      \cup {Design("RGBA", QRCODE_SIZE, QRCODE_SIZE, <<NECESSARY_BLACK, NECESSARY_WHITE, c>>) :
              c \in DesignColours}
      \cup SessionDesigns

InitPixels ==
    /\ concurrency = 1
    /\ max_workers = 1
    /\ stop_if_found = FALSE
    /\ stub = "live"
    /\ InitState
    /\ evalLevels = NoLevels
    /\ evalResult = NotRun
    /\ design \in Designs
    /\ split = NotSplit
    /\ qrcode \in RasterPalettes
    /\ canvas = NoCanvas

\* desired, necessary = split_design(design)
SplitPixels ==
    /\ ~split.done
    /\ split' = split_design(design)
    /\ UNCHANGED <<searchVars, scorerVars, design, qrcode, canvas>>

\* lines 110-112 on the resized raster
CompositePixels ==
    /\ split.done /\ ~split.raised
    /\ ~canvas.done
    /\ canvas' = [done |-> TRUE, im |-> compose(Raster(qrcode), split.necessary)]
    /\ UNCHANGED <<searchVars, scorerVars, design, split, qrcode>>

SpecPixels == InitPixels /\ [][SplitPixels \/ CompositePixels]_vars

\* ================================================================ claims

\* C1 (as stated): stop-on-first-found, renderer always valid, decoder always
\* one QR code, no interruption: when main returns exactly one canvas.save
\* has happened over the whole run.
C1_ExactlyOne ==
    (stub = "one_qr" /\ stop_if_found /\ ~interrupted /\ mainPc = "returned")
        => nsaved = 1

\* C1 (amended): in that scenario, when main returns at least one and at most
\* `concurrency` saves have happened: one for every task that began an attempt
\* before the stop event was set.
C1_OnePerStartedWorker ==
    (stub = "one_qr" /\ stop_if_found /\ ~interrupted /\ mainPc = "returned")
        => /\ 1 <= nsaved
           /\ nsaved <= concurrency
           /\ nsaved = attempts

\* C1 witness: a run of that scenario ended with two saves.
C1_Witness ==
    /\ stub = "one_qr" /\ stop_if_found /\ ~interrupted /\ mainPc = "returned"
    /\ nsaved = 2

\* A reply the spec calls a transient rendering failure.
TransientFailure(r) ==
    \/ ~r.answered
    \/ r.status # 200
    \/ ~r.marker
    \/ r.scale # RenderScale

\* C2 (as stated): when the renderer's reply is a transient failure the task
\* goes back to Sampling: it does not end and nothing is saved.
C2_FailedRenderResamples ==
    [][\A i \in Tasks :
         (pc[i] = "Rendering" /\ pc'[i] # "Rendering" /\ TransientFailure(data'[i]))
            => (pc'[i] = "Sampling" /\ nsaved' = nsaved)]_vars

\* C3: in stop-on-first-found mode, once the stop event is set and a result
\* has been saved, eventually every task has ended (also the ones that were
\* still queued) and main has returned.
AllEnded == \A i \in Tasks : Finished(i)

C3_StopLeadsToReturn ==
    (stop_if_found /\ stop_event /\ nsaved > 0) ~> (mainPc = "returned" /\ AllEnded)

\* C3 witness: a worker saved and set the event while the second task was
\* still waiting for the single pool thread, and the session then ended.
C3_Witness ==
    /\ stop_if_found /\ ~interrupted /\ mainPc = "returned"
    /\ concurrency = 2 /\ max_workers = 1
    /\ pc[1] = "exited" /\ pc[2] = "exited" /\ nsaved = 1 /\ attempts = 1

\* C4 (as stated): a task that has passed validation leaves Scoring only to
\* save its canvas, whatever the stop event is meanwhile.
C4_ScoringAlwaysPersists ==
    [][\A i \in Tasks :
         (pc[i] = "Scoring" /\ pc'[i] # "Scoring") => pc'[i] = "Persisting"]_vars

ZeroCycle(from, to, stopped) ==
    \/ to = from
    \/ from = "unsubmitted" /\ to = "queued"
    \/ from = "queued" /\ to = "Sampling"
    \/ from = "Sampling" /\ ~stopped /\ to = "Rendering"
    \/ from = "Sampling" /\ stopped /\ to = "exited"
    \/ from = "Rendering" /\ to = "Compositing"
    \/ from = "Compositing" /\ to = "Validating"
    \/ from = "Validating" /\ to = "Sampling"

\* C6: with a decoder that always reports zero codes nothing is ever saved or
\* scored and no task ends by an exception; every task only cycles
\* Sampling -> Rendering -> Compositing -> Validating -> Sampling and leaves
\* the cycle from Sampling, exactly when the stop event is set.
C6_ZeroCodesNeverFound ==
    /\ [](stub = "zero" =>
            /\ nsaved = 0 /\ files = {}
            /\ \A i \in Tasks : pc[i] \notin {"Scoring", "Persisting", "Stopping", "crashed"})
    /\ [][stub = "zero" => \A i \in Tasks : ZeroCycle(pc[i], pc'[i], stop_event)]_vars

\* C6 witness: with that decoder a task went round the cycle more than once
\* and every task exited after the stop event was set.
C6_Witness ==
    /\ stub = "zero" /\ attempts = MaxAttempts /\ nsaved = 0
    /\ mainPc = "returned" /\ \A i \in Tasks : pc[i] = "exited"

\* C7: every save is made by a task in Persisting whose validation accepted
\* (one code, QR) and whose scoring returned; the file it writes carries the
\* session name and that attempt's score and (mask, orient, seed), and no file
\* saved earlier under the same name has other parameters.
C7_PersistTraceable ==
    [][nsaved' # nsaved =>
         \E i \in Tasks :
            /\ pc[i] = "Persisting" /\ pc'[i] # "Persisting"
            /\ ~info[i].raised /\ Len(info[i].codes) = 1 /\ info[i].codes[1] = "QRCODE"
            /\ levels[i] # NoLevels /\ score[i] >= 1
            /\ params[i] \in SampleParams
            /\ \E f \in files' :
                 /\ f.params = params[i] /\ f.score = score[i]
                 /\ f.name[1] = SessionName
                 /\ \A g \in files : g.name = f.name => g.params = f.params
            /\ Cardinality(files') >= Cardinality(files)]_vars

\* C7 witness: two files of the same score and different parameters exist.
C7_Witness ==
    \E f \in files, g \in files : f.params # g.params /\ f.score = g.score

\* C8: the stop event is unset at first and no step clears it.
C8_StopMonotonic ==
    /\ ~stop_event
    /\ [][stop_event => stop_event']_vars

\* C8 witness: a worker set the event, main's finally set it again, and
\* another task polled it afterwards.
C8_Witness ==
    /\ stop_event /\ ~interrupted /\ mainPc = "returned"
    /\ concurrency = 2 /\ nsaved = 2

\* C9 (as stated): when the decoder raises at some quality level the scoring
\* still returns a score, counting the level as failed, and the task goes on
\* to save.
C9_DecodeErrorIsFailedLevel ==
    [][\A i \in Tasks :
         (pc[i] = "Scoring" /\ pc'[i] # "Scoring"
            /\ \E q \in Qualities : Replies(levels'[i])[q].raised)
         => (pc'[i] = "Persisting" /\ score'[i] >= 1)]_vars

\* The quality levels of 1..95 at which the reply is exactly one QR code.
PassingLevels(d) ==
    {q \in 1..95 : /\ ~Replies(d)[q].raised
                   /\ Len(Replies(d)[q].codes) = 1
                   /\ Replies(d)[q].codes[1] = "QRCODE"}

\* C10: the score eval_qrcode returns is 1 plus the number of quality levels
\* in 1..95 whose reply is exactly one QR code, whatever the replies at the
\* other levels; it lies in 1..96.
C10_ScoreIsPassesPlusOne ==
    (evalResult.done /\ ~evalResult.raised)
        => /\ evalResult.value = 1 + Cardinality(PassingLevels(evalLevels))
           /\ evalResult.value \in 1..96

\* C10 witness: a candidate that fails at the low qualities and at the last
\* one, and passes in between, was scored.
C10_Witness ==
    /\ evalResult.done /\ ~evalResult.raised
    /\ evalLevels.inside = OneQR /\ evalLevels.outside = ZeroCodes
    /\ FirstQuality < evalLevels.a /\ evalLevels.a < evalLevels.b
    /\ evalLevels.b < LastQuality
    /\ evalResult.value = evalLevels.b - evalLevels.a + 2

\* Exactly one code, and it is a QR code.
ExactlyOneQR(d) ==
    /\ ~d.raised
    /\ Cardinality(DOMAIN d.codes) = 1
    /\ \A k \in DOMAIN d.codes : d.codes[k] = "QRCODE"

\* C11: a candidate leaves validation for scoring exactly when the decoder
\* reported one code and that code is a QR code; with zero codes, two codes or
\* one code of another symbology the loop goes back to sampling. The scorer
\* counts a quality level by the same test: the score a task is about to save
\* is 1 plus the number of levels whose reply is exactly one QR code.
C11_AcceptIffOneQR ==
    /\ [][\A i \in Tasks :
            (pc[i] = "Validating" /\ pc'[i] # "Validating" /\ ~info'[i].raised)
               => /\ pc'[i] = "Scoring" <=> ExactlyOneQR(info'[i])
                  /\ pc'[i] = "Sampling" <=> ~ExactlyOneQR(info'[i])]_vars
    /\ [](\A i \in Tasks :
            pc[i] = "Persisting" =>
               score[i] = 1 + Cardinality({q \in Qualities :
                                             ExactlyOneQR(Replies(levels[i])[q])}))

\* C11 witness: one task was sent back to sampling with two QR codes decoded
\* while another, accepted with a single QR code and scored, is about to save.
C11_Witness ==
    \E i \in Tasks, j \in Tasks :
       /\ pc[i] = "Sampling" /\ info[i] = Decoded(<<"QRCODE", "QRCODE">>)
       /\ pc[j] = "Persisting" /\ info[j] = OneQR

\* C12: for a design of mode RGBA and size 41x41, at every position: a
\* (0,0,255,255) pixel gives (0,0,0,255) in both parts, a (255,255,0,255)
\* pixel gives (255,255,255,255) in both parts, any other pixel is copied to
\* the desired part and leaves the necessary part (0,0,0,0); both parts are
\* 41x41 and the design's own pixels are what they were.
C12_SplitPixelRules ==
    (split.done /\ design.mode = "RGBA" /\ design.width = 41 /\ design.height = 41)
       => /\ ~split.raised
          /\ split.desired.width = 41 /\ split.desired.height = 41
          /\ split.necessary.width = 41 /\ split.necessary.height = 41
          /\ \A x \in 0..40, y \in 0..40 :
               LET src == design.palette[((x + y) % Len(design.palette)) + 1]
                   des == split.desired.px[<<x, y>>]
                   nec == split.necessary.px[<<x, y>>]
               IN  /\ src = <<0, 0, 255, 255>> =>
                          des = <<0, 0, 0, 255>> /\ nec = <<0, 0, 0, 255>>
                   /\ src = <<255, 255, 0, 255>> =>
                          des = <<255, 255, 255, 255>> /\ nec = <<255, 255, 255, 255>>
                   /\ src \notin {<<0, 0, 255, 255>>, <<255, 255, 0, 255>>} =>
                          des = src /\ nec = <<0, 0, 0, 0>>
                   /\ split.pixels[<<x, y>>] = src

\* C12 witness: a design holding both sentinels and a blue pixel that is not
\* fully opaque was split.
C12_Witness ==
    /\ split.done /\ ~split.raised
    /\ design.palette = <<NECESSARY_BLACK, NECESSARY_WHITE, <<0, 0, 255, 254>>>>

\* The overlay is opaque at (x, y) of its own grid.
Opaque(im, x, y) ==
    /\ x \in 0..(im.width - 1) /\ y \in 0..(im.height - 1)
    /\ im.px[<<x, y>>][4] = 255

\* C13: in a composited candidate the pixel at (x + margin, y + margin) is
\* the necessary part's pixel wherever that part is opaque at (x, y), whatever
\* the raster holds there; every other pixel of the candidate is the resized
\* raster's (so the necessary part was pasted over the raster, not under it).
C13_OverlayWins ==
    canvas.done =>
       /\ canvas.im.width = 49 /\ canvas.im.height = 49
       /\ \A cx \in 0..48, cy \in 0..48 :
            IF Opaque(split.necessary, cx - QART_MARGIN, cy - QART_MARGIN)
            THEN canvas.im.px[<<cx, cy>>]
                    = split.necessary.px[<<cx - QART_MARGIN, cy - QART_MARGIN>>]
            ELSE canvas.im.px[<<cx, cy>>] = qrcode[(cx % Len(qrcode)) + 1]

\* C13 witness: the necessary part is black where the raster is white all
\* over, and transparent elsewhere.
C13_Witness ==
    /\ canvas.done
    /\ design.palette = <<NECESSARY_BLACK, TrueWhite>>
    /\ qrcode = <<TrueWhite, TrueWhite>>

\* C14: pasting the necessary part once more, at the same offset and under
\* its own alpha, gives the candidate back pixel for pixel.
C14_RepasteIdempotent ==
    canvas.done =>
       PasteMask(canvas.im, split.necessary, QART_MARGIN, QART_MARGIN) = canvas.im

\* C14 witness: a candidate whose necessary part holds black, white and
\* transparent pixels over a raster of grey and black columns.
C14_Witness ==
    /\ canvas.done
    /\ design.palette = <<NECESSARY_BLACK, NECESSARY_WHITE, Transparent>>
    /\ qrcode = <<<<128, 128, 128, 255>>, TrueBlack>>

\* Nothing of the search has happened: no task submitted or started, no
\* request sent, nothing saved, no Event made or set.
NothingStarted ==
    /\ submitted = 0
    /\ \A i \in Tasks : pc[i] = "unsubmitted"
    /\ attempts = 0 /\ nsaved = 0 /\ files = {}
    /\ ~created /\ ~stop_event

\* C15: when split_design raises, or an upload is answered by anything but the
\* 302 redirect, main ends there and nothing of the search ever happens; the
\* design is uploaded at most once, and exactly once, successfully, before
\* the Event is made and the first task submitted.
C15_SetupErrorAborts ==
    /\ (mainPc = "aborted" \/ \E k \in DOMAIN uploads : uploads[k] # 302)
          => (mainPc = "aborted" /\ NothingStarted)
    /\ Len(uploads) <= 1
    /\ (created \/ submitted > 0 \/ \E i \in Tasks : pc[i] # "unsubmitted")
          => uploads = <<302>>

\* C15 witness: the design was split, the upload was answered 500 and main
\* ended.
C15_Witness ==
    mainPc = "aborted" /\ uploads = <<500>>

\* A task is inside an attempt, past the poll.
InAttempt(i) ==
    pc[i] \in {"Rendering", "Compositing", "Validating", "Scoring", "Persisting"}

\* C16: the stop event is read at the loop top only. A task at the loop top
\* that finds it set returns without sending a request; no attempt begins
\* while it is set, so after the set a task finishes at most the attempt it
\* was in; a task inside an attempt never returns from there because the
\* event is set, it goes on to the next stage, back to the loop top, or to
\* the break after its save.
C16_PollOnlyAtLoopTop ==
    /\ [][\A i \in Tasks :
            (pc[i] = "Sampling" /\ stop_event /\ pc'[i] # "Sampling")
               => (pc'[i] = "exited" /\ attempts' = attempts)]_vars
    /\ [][attempts' # attempts => ~stop_event]_vars
    /\ [][\A i \in Tasks :
            (InAttempt(i) /\ pc'[i] # pc[i] /\ pc'[i] # "crashed")
               => (InAttempt(i)' \/ pc'[i] \in {"Sampling", "Stopping"})]_vars

\* C16 witness: with the event set by a sibling that saved, a task has just
\* finished the attempt it was in (rejected, zero codes) and is at the loop
\* top again.
C16_Witness ==
    /\ stop_if_found /\ stop_event /\ ~interrupted /\ nsaved = 1
    /\ \E i \in Tasks, j \in Tasks :
          /\ pc[i] = "Sampling" /\ info[i] = ZeroCodes
          /\ pc[j] = "exited"

\* C17 (as stated): a renderer or decoder call that never answers is cut off
\* by a timeout and the task goes back to the loop top, so once the stop event
\* is set every task ends and main returns, also when calls do not answer.
C17_HungCallStillReturns ==
    stop_event ~> (mainPc = "returned" /\ AllEnded)

\* C18 (as stated): the `concurrency` tasks all run at the same time: a
\* submitted task never has to wait for a running one to end, i.e. no task is
\* still queued while every thread of the pool is busy.
C18_AllRunConcurrently ==
    \A i \in Tasks :
       pc[i] = "queued" => Cardinality({j \in Tasks : Running(j)}) < max_workers

\* Without --stop-if-found no task sets the stop event: it is set only after
\* an interruption of main, and a task that has saved goes back to the loop top.
NoStopWithoutFlag ==
    /\ [](~stop_if_found => (stop_event => interrupted))
    /\ [][~stop_if_found =>
            \A i \in Tasks :
               (pc[i] = "Persisting" /\ pc'[i] # "Persisting")
                  => (pc'[i] = "Sampling" /\ stop_event' = stop_event
                      /\ nsaved' = nsaved + 1)]_vars

\* C19 (as stated): without --stop-if-found no task sets the stop event and a
\* task that has saved goes back to the loop top, and every candidate the
\* validation accepted is saved: a task leaves Scoring only towards the save.
C19_EveryAcceptedIsSaved ==
    /\ NoStopWithoutFlag
    /\ [][~stop_if_found =>
            \A i \in Tasks :
               (pc[i] = "Scoring" /\ pc'[i] # "Scoring") => pc'[i] = "Persisting"]_vars

\* C20 (as stated): main is never blocked in stop_event.wait(), the event
\* unset, when every task has ended.
C20_NeverAllEndedWhileWaiting ==
    ~(mainPc = "wait" /\ ~stop_event /\ AllEnded)

====
